---- MODULE Spec2Model ----
(***************************************************************************)
(* FetiiBot backend (src/src/index.ts): the /upload ingest pipeline        *)
(* (sheet lookup, key standardisation, relational merge, temporal          *)
(* derivation, vector-store construction) and the /chat2 handler with its  *)
(* per-user conversation histories, as a state machine whose steps are the *)
(* synchronous segments of the async handlers between two awaits.          *)
(*                                                                         *)
(* JavaScript values are records of one shape, so that null, undefined,    *)
(* numbers and strings can be compared with each other as === does.        *)
(* A number is n + frac/4 (spreadsheet serials carry a fraction of a day). *)
(***************************************************************************)
EXTENDS Integers, Sequences, FiniteSets, TLC

--------------------------------------------------------------------------
(* JavaScript values *)

MsPerDay == 86400 * 1000
MsPerHour == 3600 * 1000
MsPerMinute == 60 * 1000

\* A number is hi * MsPerDay + n + frac/4 with 0 <= n < MsPerDay: epoch
\* milliseconds do not fit one machine integer of the checker, and a
\* spreadsheet serial carries a fraction of a day.
Undef == [t |-> "undef", hi |-> 0, n |-> 0, frac |-> 0, s |-> ""]
Null == [t |-> "null", hi |-> 0, n |-> 0, frac |-> 0, s |-> ""]
Num(i) == [t |-> "num", hi |-> 0, n |-> i, frac |-> 0, s |-> ""]
NumQ(i, q) == [t |-> "num", hi |-> 0, n |-> i, frac |-> q, s |-> ""]
Wide(h, i) == [t |-> "num", hi |-> h, n |-> i, frac |-> 0, s |-> ""]
Str(x) == [t |-> "str", hi |-> 0, n |-> 0, frac |-> 0, s |-> x]

\* x || null : a falsy x (undefined, null, 0, "") gives null.
OrNull(x) ==
  IF \/ x.t \in {"undef", "null"}
     \/ (x.t = "num" /\ x.hi = 0 /\ x.n = 0 /\ x.frac = 0)
     \/ (x.t = "str" /\ x.s = "")
  THEN Null ELSE x

\* An object is the sequence of its own properties [k, v] in insertion order.
HasKey(row, k) == \E i \in 1..Len(row) : row[i].k = k

Get(row, k) ==
  IF HasKey(row, k)
  THEN row[CHOOSE i \in 1..Len(row) : row[i].k = k].v
  ELSE Undef

\* obj[k] = v : an existing property keeps its position, a new one is appended.
SetKey(row, k, v) ==
  IF HasKey(row, k)
  THEN [i \in 1..Len(row) |-> IF row[i].k = k THEN [k |-> k, v |-> v] ELSE row[i]]
  ELSE Append(row, [k |-> k, v |-> v])

--------------------------------------------------------------------------
(* Property names *)

Trip_ID == "Trip_ID"
User_ID == "User_ID"
AgeKey == "Age"
Trip_Date_and_Time == "Trip_Date_and_Time"
checkedInUserID == "checkedInUserID"
TripDateISO == "TripDateISO"
TripEpoch == "TripEpoch"
TripYear == "TripYear"
TripMonth == "TripMonth"
TripDay == "TripDay"
TripDayOfWeek == "TripDayOfWeek"
TripHour == "TripHour"

DerivedKeys ==
  {TripDateISO, TripEpoch, TripYear, TripMonth, TripDay, TripDayOfWeek, TripHour}

--------------------------------------------------------------------------
(* standardizeKeys: k.trim().replace(/\s+/g, "_") *)

\* A column header is read as the sequence of its characters.
IsSpace(c) == c \in {" ", "\t"}

RECURSIVE TrimStart(_)
TrimStart(k) ==
  IF k # <<>> /\ IsSpace(Head(k)) THEN TrimStart(Tail(k)) ELSE k

RECURSIVE TrimEnd(_)
TrimEnd(k) ==
  IF k # <<>> /\ IsSpace(k[Len(k)]) THEN TrimEnd(SubSeq(k, 1, Len(k) - 1)) ELSE k

Trim(k) == TrimEnd(TrimStart(k))

\* ReplaceSpaceRuns with every whitespace character replaced (/\s/g).
RECURSIVE ReplaceSpaceRuns_EachSpace(_)
ReplaceSpaceRuns_EachSpace(k) ==
  IF k = <<>> THEN <<>>
  ELSE <<IF IsSpace(Head(k)) THEN "_" ELSE Head(k)>>
         \o ReplaceSpaceRuns_EachSpace(Tail(k))

\* Each maximal run of whitespace becomes one underscore.
RECURSIVE ReplaceSpaceRuns(_)
ReplaceSpaceRuns(k) ==
  IF k = <<>> THEN <<>>
  ELSE IF IsSpace(Head(k))
       THEN <<"_">> \o ReplaceSpaceRuns(TrimStart(k))
       ELSE <<Head(k)>> \o ReplaceSpaceRuns(Tail(k))

NormalizeChars(k) == ReplaceSpaceRuns(Trim(k))

\* The string of a sequence of characters.
RECURSIVE Chars(_)
Chars(k) == IF k = <<>> THEN "" ELSE Head(k) \o Chars(Tail(k))

NormalizeKey(k) == Chars(NormalizeChars(k))

RECURSIVE StandardizeRow(_, _)
StandardizeRow(row, newRow) ==
  IF row = <<>> THEN newRow
  ELSE StandardizeRow(Tail(row), SetKey(newRow, NormalizeKey(Head(row).k), Head(row).v))

standardizeKeys(arr) == [i \in 1..Len(arr) |-> StandardizeRow(arr[i], <<>>)]

--------------------------------------------------------------------------
(* readSheetCaseInsensitive *)

\* A workbook is the sequence of its sheets [name, rows], in SheetNames order.
TripSheetName == "Trip Data"
CheckinSheetName == "Checked in User ID's"
DemoSheetName == "Customer Demographics"

\* String.prototype.toLowerCase on the sheet names that occur.
ToLowerCase(name) ==
  CASE name \in {"Trip Data", "TRIP DATA", "trip data"} -> "trip data"
    [] name \in {"Checked in User ID's", "checked in user id's"} -> "checked in user id's"
    [] name \in {"Customer Demographics", "customer demographics"} -> "customer demographics"
    [] OTHER -> name

\* The rows of the first sheet whose lower-cased name matches; null when none does.
readSheetCaseInsensitive(workbook, name) ==
  LET lname == ToLowerCase(name)
      hits == {i \in 1..Len(workbook) : ToLowerCase(workbook[i].name) = lname}
  IN IF hits = {}
     THEN [isNull |-> TRUE, rows |-> <<>>]
     ELSE [isNull |-> FALSE,
           rows |-> workbook[CHOOSE i \in hits : \A j \in hits : i <= j].rows]

--------------------------------------------------------------------------
(* mergeSheets *)

\* Array.prototype.find: the index of the first element satisfying P, 0 when none.
FindFirst(arr, P(_)) ==
  IF \E i \in 1..Len(arr) : P(arr[i])
  THEN CHOOSE i \in 1..Len(arr) : P(arr[i]) /\ \A j \in 1..(i - 1) : ~P(arr[j])
  ELSE 0

\* { ...trip, checkedInUserID: checkin ? checkin.User_ID : null }, checkin
\* being checkedInData[i], or nothing when i = 0.
AttachCheckin(trip, checkedInData, i) ==
  SetKey(trip, checkedInUserID,
         IF i # 0 THEN Get(checkedInData[i], User_ID) ELSE Null)

\* WithCheckin taking the last matching check-in row.
WithCheckin_LastMatch(trip, checkedInData) ==
  AttachCheckin(trip, checkedInData,
                IF \E i \in 1..Len(checkedInData) :
                     Get(checkedInData[i], Trip_ID) = Get(trip, Trip_ID)
                THEN CHOOSE i \in 1..Len(checkedInData) :
                       /\ Get(checkedInData[i], Trip_ID) = Get(trip, Trip_ID)
                       /\ \A j \in (i + 1)..Len(checkedInData) :
                            Get(checkedInData[j], Trip_ID) # Get(trip, Trip_ID)
                ELSE 0)

WithCheckin(trip, checkedInData) ==
  AttachCheckin(trip, checkedInData,
                FindFirst(checkedInData, LAMBDA c : Get(c, Trip_ID) = Get(trip, Trip_ID)))

\* { ...trip, Age: userDemo ? userDemo.Age : null }
AttachAge(trip, demographicsData, i) ==
  SetKey(trip, AgeKey, IF i # 0 THEN Get(demographicsData[i], AgeKey) ELSE Null)

\* WithAge comparing with ==, under which null equals undefined.
WithAge_LooseEquality(trip, demographicsData) ==
  AttachAge(trip, demographicsData,
            FindFirst(demographicsData,
                      LAMBDA d :
                        \/ Get(d, User_ID) = Get(trip, checkedInUserID)
                        \/ {Get(d, User_ID).t, Get(trip, checkedInUserID).t}
                             \subseteq {"undef", "null"}))

WithAge(trip, demographicsData) ==
  AttachAge(trip, demographicsData,
            FindFirst(demographicsData,
                      LAMBDA d : Get(d, User_ID) = Get(trip, checkedInUserID)))

\* The two maps of mergeSheets over the standardized sheets.
MergeRows(tripsData, checkedInData, demographicsData) ==
  [i \in 1..Len(tripsData) |->
     WithAge(WithCheckin(tripsData[i], checkedInData), demographicsData)]

\* The arguments are sheet results; standardizeKeys(null) throws a TypeError
\* (arr.map on null), which is the result [ok |-> FALSE].
TypeErrorNullMap == "Cannot read properties of null (reading 'map')"

mergeSheets(trips, checkedIn, demographics) ==
  IF trips.isNull \/ checkedIn.isNull \/ demographics.isNull
  THEN [ok |-> FALSE, rows |-> <<>>, error |-> TypeErrorNullMap]
  ELSE [ok |-> TRUE,
        rows |-> MergeRows(standardizeKeys(trips.rows), standardizeKeys(checkedIn.rows),
                           standardizeKeys(demographics.rows)),
        error |-> ""]

--------------------------------------------------------------------------
(* Date: excelDateToJSDate, new Date(string), the getters and toISOString *)

\* Days since 1970-01-01 of a proleptic Gregorian date.
DaysFromCivil(y, m, d) ==
  LET yy == IF m <= 2 THEN y - 1 ELSE y
      era == yy \div 400
      yoe == yy - era * 400
      mp == IF m > 2 THEN m - 3 ELSE m + 9
      doy == (153 * mp + 2) \div 5 + d - 1
      doe == yoe * 365 + yoe \div 4 - yoe \div 100 + doy
  IN era * 146097 + doe - 719468

\* The Gregorian date of a day count since 1970-01-01, by eras of 400 years:
\* doe is the day of the era, yoe the year of the era, doy the day of the
\* year counted from 1 March, mp the month counted from March.
CivilOfMonth(y, m, d) ==
  [year |-> y + (IF m <= 2 THEN 1 ELSE 0), month |-> m, day |-> d]

CivilOfMp(era, yoe, doy, mp) ==
  CivilOfMonth(yoe + era * 400, IF mp < 10 THEN mp + 3 ELSE mp - 9,
               doy - (153 * mp + 2) \div 5 + 1)

CivilOfDoy(era, yoe, doy) == CivilOfMp(era, yoe, doy, (5 * doy + 2) \div 153)

CivilOfYoe(era, doe, yoe) ==
  CivilOfDoy(era, yoe, doe - (365 * yoe + yoe \div 4 - yoe \div 100))

CivilOfDoe(era, doe) ==
  CivilOfYoe(era, doe,
             (doe - doe \div 1460 + doe \div 36524 - doe \div 146096) \div 365)

CivilOfEra(z, era) == CivilOfDoe(era, z - era * 146097)

CivilFromDays(days) == CivilOfEra(days + 719468, (days + 719468) \div 146097)

\* A Date is its time value day * MsPerDay + ms, 0 <= ms < MsPerDay; an
\* Invalid Date has valid = FALSE.
InvalidDate == [valid |-> FALSE, day |-> 0, ms |-> 0]
DateOf(day, ms) ==
  [valid |-> TRUE, day |-> day + ms \div MsPerDay, ms |-> ms % MsPerDay]

\* new Date((serial - 25569) * 86400 * 1000), serial = n + frac/4.
excelDateToJSDate(serial) ==
  DateOf(serial.n - 25569, serial.frac * ((86400 * 1000) \div 4))

\* new Date(string) on the date strings that occur: an ISO date-time with Z is
\* UTC, a date-time without offset is local time, anything else is invalid.
DateParse(str, tz) ==
  CASE str = "2023-01-02T10:30:00Z" ->
         DateOf(DaysFromCivil(2023, 1, 2), 10 * MsPerHour + 30 * MsPerMinute)
    [] str = "2023-01-01T00:30:00" ->
         DateOf(DaysFromCivil(2023, 1, 1), 30 * MsPerMinute - tz * MsPerMinute)
    [] OTHER -> InvalidDate

\* typeof val === "number" ? excelDateToJSDate(val) : new Date(val)
ToTripDate(val, tz) ==
  IF val.t = "num" THEN excelDateToJSDate(val) ELSE DateParse(val.s, tz)

\* The date shifted to local time, tz minutes east of UTC.
Local(date, tz) == DateOf(date.day, date.ms + tz * MsPerMinute)

getTime(date) == Wide(date.day, date.ms)
getFullYear(date, tz) == CivilFromDays(Local(date, tz).day).year
getMonth(date, tz) == CivilFromDays(Local(date, tz).day).month - 1
getDate(date, tz) == CivilFromDays(Local(date, tz).day).day
getDay(date, tz) == (Local(date, tz).day + 4) % 7
getHours(date, tz) == Local(date, tz).ms \div MsPerHour

\* String(n).padStart(width, "0") for width 2, 3 or 4.
Pad(n, width) ==
  (IF width >= 4 /\ n < 1000 THEN "0" ELSE "")
  \o (IF width >= 3 /\ n < 100 THEN "0" ELSE "")
  \o (IF n < 10 THEN "0" ELSE "")
  \o ToString(n)

\* YYYY-MM-DDTHH:mm:ss.sssZ in UTC, for years 0..9999.
ISOFormat(c, r) ==
  Pad(c.year, 4) \o "-" \o Pad(c.month, 2) \o "-" \o Pad(c.day, 2) \o "T"
  \o Pad(r \div MsPerHour, 2) \o ":" \o Pad((r % MsPerHour) \div MsPerMinute, 2)
  \o ":" \o Pad((r % MsPerMinute) \div 1000, 2) \o "." \o Pad(r % 1000, 3) \o "Z"

toISOString(date) == ISOFormat(CivilFromDays(date.day), date.ms)

--------------------------------------------------------------------------
(* POST /upload: temporal derivation and createVectorStore *)

RangeErrorInvalidTime == "Invalid time value"

\* The raw date of a merged trip; tripDate stays null when it is absent.
HasTripDate(trip) == Get(trip, Trip_Date_and_Time).t \notin {"undef", "null"}

\* tripDate?.toISOString() throws a RangeError on an Invalid Date.
DeriveThrows(trip, tz) ==
  HasTripDate(trip) /\ ~ToTripDate(Get(trip, Trip_Date_and_Time), tz).valid

\* The object literal { ...trip, TripDateISO: ..., ..., TripHour: ... }, has
\* telling that tripDate is not null.
DerivedFields(trip, has, tripDate, tz) ==
  SetKey(
    SetKey(
      SetKey(
        SetKey(
          SetKey(
            SetKey(
              SetKey(trip, TripDateISO,
                     IF has THEN OrNull(Str(toISOString(tripDate))) ELSE Null),
              TripEpoch, IF has THEN OrNull(getTime(tripDate)) ELSE Null),
            TripYear, IF has THEN OrNull(Num(getFullYear(tripDate, tz))) ELSE Null),
          TripMonth, IF has THEN Num(getMonth(tripDate, tz) + 1) ELSE Null),
        TripDay, IF has THEN OrNull(Num(getDate(tripDate, tz))) ELSE Null),
      TripDayOfWeek, IF has THEN OrNull(Num(getDay(tripDate, tz))) ELSE Null),
    TripHour, IF has THEN OrNull(Num(getHours(tripDate, tz))) ELSE Null)

DeriveTemporal(trip, tz) ==
  DerivedFields(trip, HasTripDate(trip),
                ToTripDate(Get(trip, Trip_Date_and_Time), tz), tz)

\* enrichedData.map(...) over the merged rows: the first throwing row aborts it.
DeriveAll(rows, tz) ==
  IF \E i \in 1..Len(rows) : DeriveThrows(rows[i], tz)
  THEN [ok |-> FALSE, rows |-> <<>>, error |-> RangeErrorInvalidTime]
  ELSE [ok |-> TRUE, rows |-> [i \in 1..Len(rows) |-> DeriveTemporal(rows[i], tz)],
        error |-> ""]

\* pageContent: the "k: v" entries of the fields that are neither undefined nor null.
PageContent(row) == SelectSeq(row, LAMBDA e : e.v.t \notin {"undef", "null"})

\* The documents createVectorStore hands to MemoryVectorStore.fromDocuments.
createVectorStore(data) ==
  [i \in 1..Len(data) |-> [pageContent |-> PageContent(data[i]), metadata |-> data[i]]]

--------------------------------------------------------------------------
(* Inputs: uploaded files, chat request bodies, the model's answers *)

RawTripID == <<"T", "r", "i", "p", " ", "I", "D">>
RawTripIDPadded == <<" ", "T", "r", "i", "p", " ", " ", "I", "D", " ">>
RawUserID == <<"U", "s", "e", "r", " ", "I", "D">>
RawTripDate ==
  <<"T", "r", "i", "p", " ", "D", "a", "t", "e", " ", "a", "n", "d", " ",
    "T", "i", "m", "e">>

Cell(k, v) == [k |-> k, v |-> v]
\* sheet_to_json leaves out the property of an empty cell.
TripRow(header, id, date) ==
  <<Cell(header, Str(id))>> \o (IF date = Undef THEN <<>> ELSE <<Cell(RawTripDate, date)>>)
CheckinRow(tripId, userId) == <<Cell(RawTripIDPadded, Str(tripId)), Cell(RawUserID, Str(userId))>>
DemoRow(userId, age) == <<Cell(RawUserID, Str(userId)), Cell(<<"A", "g", "e">>, Num(age))>>

Sheet(name, rows) == [name |-> name, rows |-> rows]

\* Raw trip dates: absent, spreadsheet serials (the epoch anchor, a Sunday
\* midnight, a Monday noon) and strings (UTC, local, unparseable).
DateVals ==
  {Undef, Num(25569), Num(44927), NumQ(44928, 2),
   Str("2023-01-02T10:30:00Z"), Str("2023-01-01T00:30:00"), Str("not a date")}

CheckinSheet == Sheet(CheckinSheetName, <<CheckinRow("T1", "U1")>>)
DemoSheet == Sheet(DemoSheetName, <<DemoRow("U1", 30)>>)

OneTripWorkbook(date) ==
  <<Sheet("TRIP DATA", <<TripRow(RawTripID, "T1", date)>>), CheckinSheet, DemoSheet>>

TwoTripWorkbook ==
  <<Sheet(TripSheetName,
          <<TripRow(RawTripID, "T2", Undef), TripRow(RawTripID, "T1", NumQ(44928, 2))>>),
    CheckinSheet, DemoSheet>>

NoTripSheetWorkbook == <<CheckinSheet, DemoSheet>>
NoCheckinSheetWorkbook ==
  <<Sheet(TripSheetName, <<TripRow(RawTripID, "T1", NumQ(44928, 2))>>), DemoSheet>>
NoDemoSheetWorkbook ==
  <<Sheet(TripSheetName, <<TripRow(RawTripID, "T1", NumQ(44928, 2))>>), CheckinSheet>>
EmptyTripSheetWorkbook == <<Sheet(TripSheetName, <<>>), CheckinSheet, DemoSheet>>

\* Workbooks for the two joins: trips T1 and T2, each with a User ID of its
\* own, over check-in sheets of up to MaxSheetRows rows (none, one or several
\* per trip) and demographic sheets of up to MaxSheetRows rows (a row may lack
\* its User ID or have it empty).
MaxSheetRows == 2

SeqsUpTo(S, n) == UNION {[1..m -> S] : m \in 0..n}

MergeTripSheet ==
  Sheet(TripSheetName,
        <<TripRow(RawTripID, "T1", NumQ(44928, 2)) \o <<Cell(RawUserID, Str("U1"))>>,
          TripRow(RawTripID, "T2", NumQ(44928, 2)) \o <<Cell(RawUserID, Str("U2"))>>>>)

CheckinRows == {CheckinRow("T1", "U1"), CheckinRow("T1", "U2"), CheckinRow("T2", "U2")}
DemoRows ==
  {DemoRow("U1", 30), DemoRow("U2", 40), DemoRow("", 60),
   <<Cell(<<"A", "g", "e">>, Num(50))>>}

MergeWorkbook(checkins, demos) ==
  <<MergeTripSheet, Sheet(CheckinSheetName, checkins), Sheet(DemoSheetName, demos)>>

MergeWorkbooks ==
  {MergeWorkbook(cs, <<DemoRow("U1", 30), DemoRow("U2", 40)>>) :
     cs \in SeqsUpTo(CheckinRows, MaxSheetRows)}
    \cup {MergeWorkbook(cs, ds) :
            cs \in {<<>>, <<CheckinRow("T1", "U1")>>},
            ds \in SeqsUpTo(DemoRows, MaxSheetRows)}

Workbooks ==
  {OneTripWorkbook(d) : d \in DateVals}
    \cup {TwoTripWorkbook, NoTripSheetWorkbook, NoCheckinSheetWorkbook,
          NoDemoSheetWorkbook, EmptyTripSheetWorkbook}

\* req.file: absent, a buffer XLSX.read rejects, or a workbook.
NoFile == [kind |-> "none", workbook |-> <<>>]
CorruptFile == [kind |-> "corrupt", workbook |-> <<>>]
XlsxFile(wb) == [kind |-> "xlsx", workbook |-> wb]
Files == {NoFile, CorruptFile} \cup {XlsxFile(wb) : wb \in Workbooks}
MergeFiles == {XlsxFile(wb) : wb \in MergeWorkbooks}

\* Workbooks for standardizeKeys: one trip whose id column has as header any
\* string of up to MaxHeaderLen characters (a letter, an underscore, a space,
\* a tab), or one of the two spellings of "Trip ID".
MaxHeaderLen == 4
HeaderChars == {"I", "_", " ", "\t"}
Headers == SeqsUpTo(HeaderChars, MaxHeaderLen) \cup {RawTripID, RawTripIDPadded}
HeaderWorkbook(header) ==
  <<Sheet(TripSheetName, <<TripRow(header, "T1", Undef)>>), CheckinSheet, DemoSheet>>
HeaderFiles == {XlsxFile(HeaderWorkbook(h)) : h \in Headers}

\* The files uploaded while other requests are in flight: one with a trip,
\* one with an empty trip sheet, one whose trip date does not parse.
FewFiles ==
  {XlsxFile(OneTripWorkbook(NumQ(44928, 2))), XlsxFile(EmptyTripSheetWorkbook),
   XlsxFile(OneTripWorkbook(Str("not a date")))}

\* Falsy with only an absent value rejected (a check against undefined).
Falsy_OnlyUndefined(x) == x = Undef

\* !x of a request-body value.
Falsy(x) == OrNull(x) = Null

\* req.body.question and req.body.userId: absent, empty or a string.
Questions == {Undef, Str(""), Str("q1"), Str("q2")}
UserIds == {"alice", "bob"}
UserIdInputs == {Undef, Str("")} \cup {Str(id) : id \in UserIds}
Answers == {"a1", "a2"}

\* The request bodies sent: both fields given, or one of them absent or empty.
Bodies ==
  {b \in [question : Questions, userId : UserIdInputs] :
     /\ b.question \in {Undef, Str("")} => b.userId = Str("alice")
     /\ b.userId \in {Undef, Str("")} => b.question = Str("q1")}

TimeZones == {0, -300}

--------------------------------------------------------------------------
(* The server process *)

\* Requests begun over a run (the histories grow without bound otherwise).
MaxRequests == 3

\* Requests of one route that can be in flight together.
UploadSlots == {"u1", "u2"}
ChatSlots == {"c1", "c2"}

\* retriever = vectorStore.asRetriever({ k: 20 })
TopK == 20

VARIABLES
  tz,             \* the process's local time zone, minutes east of UTC
  vectorStore,    \* let vectorStore: null, or the documents of the store
  enrichedData,   \* let enrichedData
  userHistories,  \* const userHistories: per user id, whether the Map has it and its messages
  uploads,        \* per slot, the /upload request in it: where its handler stands, its locals and response
  chats,          \* per slot, the /chat2 request in it
  started         \* number of requests begun

vars == <<tz, vectorStore, enrichedData, userHistories, uploads, chats, started>>

NullStore == [isNull |-> TRUE, docs |-> <<>>]
StoreOf(docs) == [isNull |-> FALSE, docs |-> docs]

NoResponse == [status |-> 0, error |-> "", rows |-> 0, answer |-> "", sent |-> 0]
\* res.status(status).json({ error })
ErrorResponse(status, error) ==
  [status |-> status, error |-> error, rows |-> 0, answer |-> "", sent |-> 1]

IdleUpload == [id |-> 0, pc |-> "idle", file |-> NoFile, docs |-> <<>>, res |-> NoResponse]

NoPrompt == [question |-> "", context |-> <<>>]
IdleChat ==
  [id |-> 0, pc |-> "idle", question |-> Undef, userId |-> Undef, store |-> <<>>,
   prompt |-> NoPrompt, memory |-> <<>>, failed |-> "", retrievals |-> 0,
   modelCalls |-> 0, res |-> NoResponse]

\* Chat messages: a HumanMessage carries a plain text or a whole prompt.
HumanText(text) == [role |-> "human", kind |-> "text", text |-> text, context |-> <<>>]
HumanPrompt(prompt) ==
  [role |-> "human", kind |-> "prompt", text |-> prompt.question,
   context |-> prompt.context]
AIText(text) == [role |-> "ai", kind |-> "text", text |-> text, context |-> <<>>]

\* The strings a request can present as a key of the userHistories Map.
MapKeys == {id.s : id \in UserIdInputs}

Init ==
  /\ tz \in TimeZones
  /\ vectorStore = NullStore
  /\ enrichedData = <<>>
  /\ userHistories = [id \in MapKeys |-> [has |-> FALSE, messages |-> <<>>]]
  /\ uploads = [u \in UploadSlots |-> IdleUpload]
  /\ chats = [c \in ChatSlots |-> IdleChat]
  /\ started = 0

--------------------------------------------------------------------------
(* POST /upload *)

\* The handler up to its await: the response it sends there (status 0: none,
\* it goes on to await the store), whether enrichedData was assigned and to
\* what, and the documents handed to MemoryVectorStore.fromDocuments.
UploadDerived(merged, derived) ==
  IF ~derived.ok
  THEN [status |-> 500, error |-> derived.error, assigned |-> TRUE,
        data |-> merged.rows, docs |-> <<>>]
  ELSE [status |-> 0, error |-> "", assigned |-> TRUE,
        data |-> derived.rows, docs |-> createVectorStore(derived.rows)]

UploadMerged(merged, zone) ==
  IF ~merged.ok
  THEN [status |-> 500, error |-> merged.error, assigned |-> FALSE,
        data |-> <<>>, docs |-> <<>>]
  ELSE UploadDerived(merged, DeriveAll(merged.rows, zone))

UploadSync(file, zone) ==
  IF file.kind = "none"
  THEN [status |-> 400, error |-> "No file uploaded", assigned |-> FALSE,
        data |-> <<>>, docs |-> <<>>]
  ELSE IF file.kind = "corrupt"
  THEN [status |-> 500, error |-> "Unsupported file", assigned |-> FALSE,
        data |-> <<>>, docs |-> <<>>]
  ELSE UploadMerged(mergeSheets(readSheetCaseInsensitive(file.workbook, TripSheetName),
                                readSheetCaseInsensitive(file.workbook, CheckinSheetName),
                                readSheetCaseInsensitive(file.workbook, DemoSheetName)),
                    zone)

\* A request arrives and its handler runs to the await of createVectorStore,
\* or to the response that ends it before; r is what UploadSync gives.
UploadBegin(u, file, r) ==
  /\ enrichedData' = IF r.assigned THEN r.data ELSE enrichedData
  /\ uploads' =
       [uploads EXCEPT ![u] =
          IF r.status = 0
          THEN [id |-> started + 1, pc |-> "embedding", file |-> file,
                docs |-> r.docs, res |-> NoResponse]
          ELSE [id |-> started + 1, pc |-> "done", file |-> file,
                docs |-> <<>>, res |-> ErrorResponse(r.status, r.error)]]

\* UploadStart with the new, still empty store assigned to vectorStore before
\* the documents are embedded into it.
UploadStart_PublishEarly(u, file) ==
  /\ started < MaxRequests
  /\ uploads[u].pc \in {"idle", "done"}
  /\ started' = started + 1
  /\ UploadBegin(u, file, UploadSync(file, tz))
  /\ vectorStore' = IF UploadSync(file, tz).status = 0 THEN StoreOf(<<>>) ELSE vectorStore
  /\ UNCHANGED <<tz, userHistories, chats>>

UploadStart(u, file) ==
  /\ started < MaxRequests
  /\ uploads[u].pc \in {"idle", "done"}
  /\ started' = started + 1
  /\ UploadBegin(u, file, UploadSync(file, tz))
  /\ UNCHANGED <<tz, vectorStore, userHistories, chats>>

\* UploadEmbedded with the documents added to the store in place.
UploadEmbedded_Append(u) ==
  /\ uploads[u].pc = "embedding"
  /\ vectorStore' = StoreOf(vectorStore.docs \o uploads[u].docs)
  /\ uploads' =
       [uploads EXCEPT ![u].pc = "done", ![u].docs = <<>>,
                       ![u].res = [status |-> 200, error |-> "",
                                   rows |-> Len(enrichedData), answer |-> "",
                                   sent |-> 1]]
  /\ UNCHANGED <<tz, enrichedData, userHistories, chats, started>>

\* fromDocuments resolves: the store is published and the 200 is sent.
UploadEmbedded(u) ==
  /\ uploads[u].pc = "embedding"
  /\ vectorStore' = StoreOf(uploads[u].docs)
  /\ uploads' =
       [uploads EXCEPT ![u].pc = "done", ![u].docs = <<>>,
                       ![u].res = [status |-> 200, error |-> "",
                                   rows |-> Len(enrichedData), answer |-> "",
                                   sent |-> 1]]
  /\ UNCHANGED <<tz, enrichedData, userHistories, chats, started>>

\* UploadEmbedFailed with the index cleared when the upload fails.
UploadEmbedFailed_Reset(u) ==
  /\ uploads[u].pc = "embedding"
  /\ vectorStore' = NullStore
  /\ uploads' =
       [uploads EXCEPT ![u].pc = "done", ![u].docs = <<>>,
                       ![u].res = ErrorResponse(500, "embedding failed")]
  /\ UNCHANGED <<tz, enrichedData, userHistories, chats, started>>

\* fromDocuments rejects (the embedding provider fails): caught, 500.
UploadEmbedFailed(u) ==
  /\ uploads[u].pc = "embedding"
  /\ uploads' =
       [uploads EXCEPT ![u].pc = "done", ![u].docs = <<>>,
                       ![u].res = ErrorResponse(500, "embedding failed")]
  /\ UNCHANGED <<tz, vectorStore, enrichedData, userHistories, chats, started>>

--------------------------------------------------------------------------
(* POST /chat2 *)

GenericError == "Something went wrong"

\* getUserHistory registering a history under every user id.
getUserHistory_EveryKey(histories, userId) ==
  [id \in DOMAIN histories |-> [has |-> TRUE, messages |-> histories[id].messages]]

\* getUserHistory handing out a new, empty history on every call.
getUserHistory_AlwaysNew(histories, userId) ==
  [histories EXCEPT ![userId] = [has |-> TRUE, messages |-> <<>>]]

\* getUserHistory: the Map gets an empty history on first use.
getUserHistory(histories, userId) ==
  IF histories[userId].has
  THEN histories
  ELSE [histories EXCEPT ![userId] = [has |-> TRUE, messages |-> <<>>]]

\* The orders in which the retriever can rank n documents, cut to the k nearest.
Rankings(n, k) ==
  LET m == IF n < k THEN n ELSE k
  IN {p \in [1..m -> 1..n] : \A i, j \in 1..m : p[i] = p[j] => i = j}

\* A request arrives: the two precondition checks, the history lookup, and
\* the call of retriever.getRelevantDocuments on the store of this moment.
ChatStart(c, question, userId) ==
  /\ started < MaxRequests
  /\ chats[c].pc \in {"idle", "done"}
  /\ started' = started + 1
  /\ LET fresh == [IdleChat EXCEPT !.id = started + 1, !.question = question,
                                   !.userId = userId]
     IN IF vectorStore.isNull
        THEN /\ chats' = [chats EXCEPT ![c] =
                            [fresh EXCEPT !.pc = "done",
                                          !.res = ErrorResponse(400, "No data uploaded yet")]]
             /\ UNCHANGED userHistories
        ELSE IF Falsy(question) \/ Falsy(userId)
        THEN /\ chats' = [chats EXCEPT ![c] =
                            [fresh EXCEPT !.pc = "done",
                                          !.res = ErrorResponse(400,
                                                    "Both question and userId are required")]]
             /\ UNCHANGED userHistories
        ELSE /\ userHistories' = getUserHistory(userHistories, userId.s)
             /\ chats' = [chats EXCEPT ![c] =
                            [fresh EXCEPT !.pc = "retrieving",
                                          !.store = vectorStore.docs,
                                          !.retrievals = 1]]
  /\ UNCHANGED <<tz, vectorStore, enrichedData, uploads>>

\* getRelevantDocuments resolves with the documents in the order `ranking`:
\* the prompt is assembled and chain.call loads the memory (the history as it
\* is now) and calls the model.
ChatRetrieved(c, ranking) ==
  /\ chats[c].pc = "retrieving"
  /\ ranking \in Rankings(Len(chats[c].store), TopK)
  /\ LET relevantDocs == [i \in 1..Len(ranking) |-> chats[c].store[ranking[i]]]
         prompt == [question |-> chats[c].question.s,
                    context |-> [i \in 1..Len(relevantDocs) |-> relevantDocs[i].metadata]]
     IN chats' = [chats EXCEPT ![c].pc = "calling",
                               ![c].store = <<>>,
                               ![c].prompt = prompt,
                               ![c].memory = userHistories[chats[c].userId.s].messages,
                               ![c].modelCalls = chats[c].modelCalls + 1]
  /\ UNCHANGED <<tz, vectorStore, enrichedData, userHistories, uploads, started>>

\* getRelevantDocuments rejects: caught, 500.
ChatRetrieveFailed(c) ==
  /\ chats[c].pc = "retrieving"
  /\ chats' = [chats EXCEPT ![c].pc = "done", ![c].store = <<>>,
                            ![c].failed = "retrieval",
                            ![c].res = ErrorResponse(500, GenericError)]
  /\ UNCHANGED <<tz, vectorStore, enrichedData, userHistories, uploads, started>>

\* TurnMessages without the handler's own two additions.
TurnMessages_ChainOnly(prompt, question, answer) ==
  <<HumanPrompt(prompt), AIText(answer)>>

\* The messages one answered turn adds to the history it is bound to: the
\* chain's memory saves its input (the prompt) and its output, and then the
\* handler adds the question and the answer.
TurnMessages(prompt, question, answer) ==
  <<HumanPrompt(prompt), AIText(answer), HumanText(question), AIText(answer)>>

\* ChatAnswered with the turns of one user recorded in their order of arrival:
\* a turn waits for the earlier turns of its user that are still in flight.
ChatAnswered_PerUserQueue(c, answer) ==
  /\ chats[c].pc = "calling"
  /\ \A d \in DOMAIN chats :
       (chats[d].pc \in {"retrieving", "calling"} /\ chats[d].userId = chats[c].userId)
         => chats[c].id <= chats[d].id
  /\ userHistories' =
       [userHistories EXCEPT ![chats[c].userId.s].messages =
          @ \o <<HumanPrompt(chats[c].prompt), AIText(answer),
                 HumanText(chats[c].question.s), AIText(answer)>>]
  /\ chats' = [chats EXCEPT ![c].pc = "done", ![c].prompt = NoPrompt,
                            ![c].memory = <<>>,
                            ![c].res = [status |-> 200, error |-> "", rows |-> 0,
                                        answer |-> answer, sent |-> 1]]
  /\ UNCHANGED <<tz, vectorStore, enrichedData, uploads, started>>

\* The model answers: chain.call resolves, the history is extended and the
\* answer sent.
ChatAnswered(c, answer) ==
  /\ chats[c].pc = "calling"
  /\ LET id == chats[c].userId.s
     IN userHistories' =
          [userHistories EXCEPT ![id].messages =
             @ \o TurnMessages(chats[c].prompt, chats[c].question.s, answer)]
  /\ chats' = [chats EXCEPT ![c].pc = "done", ![c].prompt = NoPrompt,
                            ![c].memory = <<>>,
                            ![c].res = [status |-> 200, error |-> "", rows |-> 0,
                                        answer |-> answer, sent |-> 1]]
  /\ UNCHANGED <<tz, vectorStore, enrichedData, uploads, started>>

\* ChatModelFailed with the model called again instead of answering 500.
ChatModelFailed_Retry(c) ==
  /\ chats[c].pc = "calling"
  /\ chats[c].modelCalls < MaxRequests
  /\ chats' = [chats EXCEPT ![c].modelCalls = chats[c].modelCalls + 1]
  /\ UNCHANGED <<tz, vectorStore, enrichedData, userHistories, uploads, started>>

\* ChatModelFailed with the question recorded before the model is called.
ChatModelFailed_QuestionKept(c) ==
  /\ chats[c].pc = "calling"
  /\ userHistories' =
       [userHistories EXCEPT ![chats[c].userId.s].messages =
          Append(@, HumanText(chats[c].question.s))]
  /\ chats' = [chats EXCEPT ![c].pc = "done", ![c].failed = "model",
                            ![c].prompt = NoPrompt, ![c].memory = <<>>,
                            ![c].res = ErrorResponse(500, GenericError)]
  /\ UNCHANGED <<tz, vectorStore, enrichedData, uploads, started>>

\* chain.call rejects (the model call fails): caught, 500.
ChatModelFailed(c) ==
  /\ chats[c].pc = "calling"
  /\ chats' = [chats EXCEPT ![c].pc = "done", ![c].failed = "model",
                            ![c].prompt = NoPrompt, ![c].memory = <<>>,
                            ![c].res = ErrorResponse(500, GenericError)]
  /\ UNCHANGED <<tz, vectorStore, enrichedData, userHistories, uploads, started>>

--------------------------------------------------------------------------
\* The slot a new request takes: an idle one, else the one whose request
\* ended longest ago (there is none while all are in flight).
FreeSlot(slots) ==
  LET idle == {x \in DOMAIN slots : slots[x].pc = "idle"}
      done == {x \in DOMAIN slots : slots[x].pc = "done"}
  IN IF idle # {}
     THEN {CHOOSE x \in idle : TRUE}
     ELSE {x \in done : \A y \in done : slots[x].id <= slots[y].id}

Next ==
  \/ \E u \in FreeSlot(uploads), file \in FewFiles : UploadStart(u, file)
  \/ \E u \in UploadSlots : UploadEmbedded(u)
  \/ \E u \in UploadSlots : UploadEmbedFailed(u)
  \/ \E c \in FreeSlot(chats), body \in Bodies :
       ChatStart(c, body.question, body.userId)
  \/ \E c \in ChatSlots : \E ranking \in Rankings(Len(chats[c].store), TopK) :
       ChatRetrieved(c, ranking)
  \/ \E c \in ChatSlots : ChatRetrieveFailed(c)
  \/ \E c \in ChatSlots, answer \in Answers : ChatAnswered(c, answer)
  \/ \E c \in ChatSlots : ChatModelFailed(c)

Spec == Init /\ [][Next]_vars

\* One upload after the other, over every file.
NextIngest ==
  \/ \E file \in Files : UploadStart("u1", file)
  \/ UploadEmbedded("u1")
  \/ UploadEmbedFailed("u1")

SpecIngest == Init /\ [][NextIngest]_vars

\* The joins of mergeSheets over the workbooks made for them: a client holds
\* one such workbook and uploads it, one request after the other.
InitMerge ==
  /\ tz \in TimeZones
  /\ vectorStore = NullStore
  /\ enrichedData = <<>>
  /\ userHistories = [id \in MapKeys |-> [has |-> FALSE, messages |-> <<>>]]
  /\ \E file \in MergeFiles :
       uploads = [u \in UploadSlots |->
                    IF u = "u1" THEN [IdleUpload EXCEPT !.file = file] ELSE IdleUpload]
  /\ chats = [c \in ChatSlots |-> IdleChat]
  /\ started = 0

NextMerge ==
  \/ UploadStart("u1", uploads["u1"].file)
  \/ UploadEmbedded("u1")
  \/ UploadEmbedFailed("u1")

SpecMerge == InitMerge /\ [][NextMerge]_vars

\* standardizeKeys over the workbooks made for it, uploaded the same way.
InitKeys ==
  /\ tz \in TimeZones
  /\ vectorStore = NullStore
  /\ enrichedData = <<>>
  /\ userHistories = [id \in MapKeys |-> [has |-> FALSE, messages |-> <<>>]]
  /\ \E file \in HeaderFiles :
       uploads = [u \in UploadSlots |->
                    IF u = "u1" THEN [IdleUpload EXCEPT !.file = file] ELSE IdleUpload]
  /\ chats = [c \in ChatSlots |-> IdleChat]
  /\ started = 0

NextKeys ==
  \/ UploadStart("u1", uploads["u1"].file)
  \/ UploadEmbedded("u1")
  \/ UploadEmbedFailed("u1")

SpecKeys == InitKeys /\ [][NextKeys]_vars

--------------------------------------------------------------------------
(* Properties *)

RowsOf(docs) == [i \in 1..Len(docs) |-> docs[i].metadata]

\* The number of derived temporal fields of an enriched record that are null.
NullDerived(row) == Cardinality({k \in DerivedKeys : Get(row, k) = Null})

\* C1: in every enriched trip record an upload produces, the seven derived
\* temporal fields are all null or all non-null, whatever the raw date.
C1_DerivedAllOrNone ==
  \A i \in 1..Len(enrichedData) :
    HasKey(enrichedData[i], TripDateISO) =>
      NullDerived(enrichedData[i]) \in {0, Cardinality(DerivedKeys)}

LacksSheet(workbook) ==
  \E name \in {TripSheetName, CheckinSheetName, DemoSheetName} :
    readSheetCaseInsensitive(workbook, name).isNull

\* C2: an upload whose workbook lacks one of the three sheets is not
\* rejected for it: its handler gets past the merge and the derivation to the
\* construction of the index.
C2_MissingSheetNotRejected ==
  \A u \in UploadSlots :
    (uploads[u].file.kind = "xlsx" /\ LacksSheet(uploads[u].file.workbook)) =>
      \/ uploads[u].pc = "embedding"
      \/ uploads[u].res.status = 200
      \/ uploads[u].res.error = "embedding failed"

\* C3: an upload that ends in a 500 leaves the active index and the active
\* record set as they were before it started (stated for the failures of the
\* handler's synchronous part: parse, merge, temporal derivation).
C3_FailedUploadChangesNothing ==
  [][\A u \in UploadSlots :
       (uploads'[u].id # uploads[u].id /\ uploads'[u].res.status = 500) =>
         (vectorStore' = vectorStore /\ enrichedData' = enrichedData)]_vars

\* C4: whenever there is an active index, it is the index built from the
\* active enriched-record set.
C4_IndexBuiltFromRecords ==
  ~vectorStore.isNull => vectorStore.docs = createVectorStore(enrichedData)

\* C5: when an upload that no other upload overlapped succeeds, the active
\* index and the active record set are exactly those of its own workbook, and
\* a chat request retrieves only documents of the index active when it began.
C5_UploadReplacesIndex ==
  [][/\ \A u \in UploadSlots :
          (/\ uploads[u].pc = "embedding"
           /\ uploads'[u].res.status = 200
           /\ enrichedData = RowsOf(uploads[u].docs)) =>
            /\ enrichedData' = UploadSync(uploads[u].file, tz).data
            /\ vectorStore' = StoreOf(createVectorStore(enrichedData'))
     /\ \A c \in ChatSlots :
          /\ (chats'[c].id # chats[c].id /\ chats'[c].pc = "retrieving") =>
               chats'[c].store = vectorStore.docs
          /\ (chats[c].pc = "retrieving" /\ chats'[c].pc = "calling") =>
               \A i \in 1..Len(chats'[c].prompt.context) :
                 \E j \in 1..Len(chats[c].store) :
                   chats'[c].prompt.context[i] = chats[c].store[j].metadata]_vars

\* Two uploads of different workbooks succeeded one after the other, the index
\* is the second one's, and a later chat request retrieved its documents.
C5_Witness ==
  \E u1, u2 \in UploadSlots, c \in ChatSlots :
    /\ uploads[u1].res.status = 200 /\ uploads[u2].res.status = 200
    /\ uploads[u1].id < uploads[u2].id /\ uploads[u2].id < chats[c].id
    /\ vectorStore.docs = createVectorStore(UploadSync(uploads[u2].file, tz).data)
    /\ vectorStore.docs # createVectorStore(UploadSync(uploads[u1].file, tz).data)
    /\ chats[c].pc = "calling"
    /\ chats[c].prompt.context = enrichedData
    /\ enrichedData # <<>>

\* A request-body field that is absent or the empty string.
MissingOrEmpty(x) == x = Undef \/ x = Str("")

\* The request was answered 400 before any retrieval or model call.
Rejected(r) ==
  r.pc = "done" /\ r.res.status = 400 /\ r.res.sent = 1
  /\ r.retrievals = 0 /\ r.modelCalls = 0

\* C6 as stated: a chat request is answered 400, with no retrieval or model
\* call, exactly when there is no index yet or the question or the userId is
\* missing; otherwise it proceeds to retrieval.
C6_RejectedIffMissing ==
  [][\A c \in ChatSlots :
       chats'[c].id # chats[c].id =>
         /\ Rejected(chats'[c]) <=>
              (vectorStore.isNull \/ chats'[c].question = Undef
                 \/ chats'[c].userId = Undef)
         /\ ~Rejected(chats'[c]) =>
              (chats'[c].pc = "retrieving" /\ chats'[c].retrievals = 1)]_vars

\* C6 amended: ... exactly when there is no index yet ("No data uploaded
\* yet") or the question or the userId is missing or empty; otherwise it
\* proceeds to retrieval.
C6_RejectedIffMissingOrEmpty ==
  [][\A c \in ChatSlots :
       chats'[c].id # chats[c].id =>
         /\ Rejected(chats'[c]) <=>
              (vectorStore.isNull \/ MissingOrEmpty(chats'[c].question)
                 \/ MissingOrEmpty(chats'[c].userId))
         /\ vectorStore.isNull => chats'[c].res.error = "No data uploaded yet"
         /\ ~Rejected(chats'[c]) =>
              (chats'[c].pc = "retrieving" /\ chats'[c].retrievals = 1)]_vars

\* With an index built, a request with an empty question was answered 400 and
\* one with both fields went on to retrieval.
C6_Witness ==
  /\ ~vectorStore.isNull
  /\ \E c \in ChatSlots :
       /\ Rejected(chats[c]) /\ chats[c].question = Str("")
       /\ chats[c].res.error = "Both question and userId are required"
  /\ \E c \in ChatSlots : chats[c].pc = "retrieving" /\ chats[c].retrievals = 1

\* b directly follows a in seq.
Adjacent(seq, a, b) == \E i \in 1..(Len(seq) - 1) : seq[i] = a /\ seq[i + 1] = b

\* C7: when the model is called for a turn of a user after an earlier turn of
\* the same user succeeded, the memory passed to it holds the earlier turn's
\* question followed by the earlier turn's answer.
C7_MemoryHoldsEarlierTurn ==
  [][\A c1, c2 \in ChatSlots :
       (/\ c1 # c2
        /\ chats[c1].pc = "done" /\ chats[c1].res.status = 200
        /\ chats[c1].userId = chats[c2].userId
        /\ chats[c2].pc = "retrieving" /\ chats'[c2].pc = "calling") =>
         Adjacent(chats'[c2].memory, HumanText(chats[c1].question.s),
                  AIText(chats[c1].res.answer))]_vars

\* A second turn of a user is at the model with the first turn, which was
\* answered before the second began, in its memory.
C7_Witness ==
  \E c1, c2 \in ChatSlots :
    /\ chats[c1].res.status = 200 /\ chats[c2].pc = "calling"
    /\ chats[c1].id < chats[c2].id
    /\ chats[c1].userId = chats[c2].userId
    /\ chats[c1].question # chats[c2].question
    /\ Adjacent(chats[c2].memory, HumanText(chats[c1].question.s),
                AIText(chats[c1].res.answer))

\* C8: an answered chat turn appends to its user's history exactly the
\* question followed by the answer, two entries and nothing else.
C8_TurnAppendsQuestionAnswer ==
  [][\A c \in ChatSlots :
       (chats[c].pc = "calling" /\ chats'[c].res.status = 200) =>
         userHistories'[chats[c].userId.s].messages =
           userHistories[chats[c].userId.s].messages
             \o <<HumanText(chats[c].question.s), AIText(chats'[c].res.answer)>>]_vars

\* C9: the history of a user changes only in a step of a chat request of
\* that user.
C9_HistoryChangedByOwnerOnly ==
  [][\A id \in UserIds :
       userHistories'[id] # userHistories[id] =>
         \E c \in ChatSlots : chats'[c] # chats[c] /\ chats'[c].userId = Str(id)]_vars

\* Both users had answered turns, each history holding its own user's turn.
C9_Witness ==
  \E c1, c2 \in ChatSlots :
    /\ chats[c1].res.status = 200 /\ chats[c1].userId = Str("alice")
    /\ chats[c2].res.status = 200 /\ chats[c2].userId = Str("bob")
    /\ chats[c1].question # chats[c2].question
    /\ userHistories["alice"].messages[3] = HumanText(chats[c1].question.s)
    /\ userHistories["bob"].messages[3] = HumanText(chats[c2].question.s)
    /\ Len(userHistories["alice"].messages) = Len(userHistories["bob"].messages)

\* C10: a chat request calls retrieval at most once and the model at most
\* once, and one whose retrieval or model call failed has been answered with
\* exactly one response, the 500 "Something went wrong".
C10_FailureAnsweredOnce ==
  \A c \in ChatSlots :
    /\ chats[c].retrievals <= 1 /\ chats[c].modelCalls <= 1
    /\ chats[c].res.sent <= 1
    /\ chats[c].failed # "" =>
         /\ chats[c].pc = "done"
         /\ chats[c].res = ErrorResponse(500, "Something went wrong")
    /\ (chats[c].pc = "done" /\ chats[c].res.status = 500) => chats[c].failed # ""

\* One request failed at retrieval and one at the model call.
C10_Witness ==
  \E c1, c2 \in ChatSlots :
    /\ chats[c1].failed = "retrieval" /\ chats[c1].retrievals = 1
    /\ chats[c1].modelCalls = 0 /\ chats[c1].res.status = 500
    /\ chats[c2].failed = "model" /\ chats[c2].retrievals = 1
    /\ chats[c2].modelCalls = 1 /\ chats[c2].res.status = 500

\* C11: chat requests of one user are not mutually excluded: while one is in
\* flight another of the same user can begin and go on to retrieval, and of
\* two that wait for the model either can be answered, and recorded, first.
C11_NoMutualExclusion ==
  \A c1, c2 \in ChatSlots :
    (c1 # c2 /\ chats[c1].pc \in {"retrieving", "calling"}) =>
      /\ (started < MaxRequests /\ c2 \in FreeSlot(chats)) =>
           ENABLED (ChatStart(c2, Str("q2"), chats[c1].userId)
                      /\ chats'[c2].pc = "retrieving")
      /\ (chats[c1].pc = "calling" /\ chats[c2].pc = "calling"
            /\ chats[c1].userId = chats[c2].userId) =>
           \A answer \in Answers : ENABLED ChatAnswered(c1, answer)

\* Two overlapping turns of alice were both answered and the history holds
\* the turn that arrived second before the turn that arrived first.
C11_Witness ==
  \E c1, c2 \in ChatSlots :
    /\ chats[c1].userId = Str("alice") /\ chats[c2].userId = Str("alice")
    /\ chats[c1].res.status = 200 /\ chats[c2].res.status = 200
    /\ chats[c1].id < chats[c2].id
    /\ chats[c1].question # chats[c2].question
    /\ Len(userHistories["alice"].messages) = 8
    /\ userHistories["alice"].messages[3] = HumanText(chats[c2].question.s)
    /\ userHistories["alice"].messages[7] = HumanText(chats[c1].question.s)

\* C12: the 200 response of an upload reports as rows the number of trip rows
\* of the workbook of that upload, also when another upload ran meanwhile.
C12_RowsOfOwnWorkbook ==
  [][\A u \in UploadSlots :
       (uploads[u].pc = "embedding" /\ uploads'[u].res.status = 200) =>
         uploads'[u].res.rows =
           Len(readSheetCaseInsensitive(uploads[u].file.workbook, TripSheetName).rows)]_vars

\* The standardized sheets mergeSheets joins for an uploaded workbook.
SheetOf(file, name) == standardizeKeys(readSheetCaseInsensitive(file.workbook, name).rows)

\* The indexes of the check-in rows whose Trip_ID is the trip's.
Matching(trip, checkins) ==
  {j \in 1..Len(checkins) : Get(checkins[j], Trip_ID) = Get(trip, Trip_ID)}

\* The upload in slot u1 got as far as assigning enrichedData.
Merged(u) == u.pc # "idle" /\ UploadSync(u.file, tz).assigned

FirstMatchAttached(row, checkins, M) ==
  /\ M = {} => Get(row, checkedInUserID) = Null
  /\ \A j \in M :
       (\A k \in M : j <= k) => Get(row, checkedInUserID) = Get(checkins[j], User_ID)

\* C13: in every merged record, checkedInUserID is the User_ID of the first
\* check-in row, in sheet order, with the trip's Trip_ID, and null when no
\* check-in row has it; there is one record per trip, in trip order.
C13_FirstCheckinWins ==
  Merged(uploads["u1"]) =>
    /\ Len(enrichedData) = Len(SheetOf(uploads["u1"].file, TripSheetName))
    /\ \A i \in 1..Len(enrichedData) :
         /\ Get(enrichedData[i], Trip_ID)
              = Get(SheetOf(uploads["u1"].file, TripSheetName)[i], Trip_ID)
         /\ FirstMatchAttached(enrichedData[i],
                               SheetOf(uploads["u1"].file, CheckinSheetName),
                               Matching(enrichedData[i],
                                        SheetOf(uploads["u1"].file, CheckinSheetName)))

\* An ingested workbook had two check-in rows for trip T1, U2 before U1, and
\* the record of T1 has U2.
C13_Witness ==
  /\ uploads["u1"].res.status = 200
  /\ uploads["u1"].file.workbook
       = MergeWorkbook(<<CheckinRow("T1", "U2"), CheckinRow("T1", "U1")>>,
                       <<DemoRow("U1", 30), DemoRow("U2", 40)>>)
  /\ Get(enrichedData[1], Trip_ID) = Str("T1")
  /\ Get(enrichedData[1], checkedInUserID) = Str("U2")
  /\ Get(enrichedData[2], checkedInUserID) = Null

\* C14: a merged record of a trip with no matching check-in row has Age null,
\* whatever the demographic sheet holds.
C14_UnmatchedTripHasNullAge ==
  Merged(uploads["u1"]) =>
    \A i \in 1..Len(enrichedData) :
      Matching(enrichedData[i], SheetOf(uploads["u1"].file, CheckinSheetName)) = {}
        => Get(enrichedData[i], AgeKey) = Null

\* An ingested workbook had no check-in row, a demographic row without User ID
\* and one for U1, the User ID trip T1 carries itself: the Age of T1 is null.
C14_Witness ==
  /\ uploads["u1"].res.status = 200
  /\ uploads["u1"].file.workbook
       = MergeWorkbook(<<>>, <<<<Cell(<<"A", "g", "e">>, Num(50))>>, DemoRow("U1", 30)>>)
  /\ Get(enrichedData[1], User_ID) = Str("U1")
  /\ Get(enrichedData[1], checkedInUserID) = Null
  /\ Get(enrichedData[1], AgeKey) = Null

\* C15: a record whose raw trip date is the integer serial s has as TripEpoch
\* the (s - 25569) * 86,400,000 ms of its instant, and serial 25569 gives
\* 1970-01-01T00:00:00.000Z with TripEpoch 0.
C15_SerialToEpoch ==
  Merged(uploads["u1"]) =>
    \A i \in 1..Len(enrichedData) :
      (/\ HasKey(enrichedData[i], TripEpoch)
       /\ Get(enrichedData[i], Trip_Date_and_Time).t = "num"
       /\ Get(enrichedData[i], Trip_Date_and_Time).frac = 0) =>
        /\ Get(enrichedData[i], TripEpoch)
             = Wide(Get(enrichedData[i], Trip_Date_and_Time).n - 25569, 0)
        /\ Get(enrichedData[i], Trip_Date_and_Time) = Num(25569) =>
             /\ Get(enrichedData[i], TripDateISO) = Str("1970-01-01T00:00:00.000Z")
             /\ Get(enrichedData[i], TripEpoch) = Num(0)

\* seq is the beginning of full.
IsPrefix(seq, full) == Len(seq) <= Len(full) /\ SubSeq(full, 1, Len(seq)) = seq

\* C16: a user's history is registered once and then only grows: a history
\* the Map has is the one getUserHistory returns, the Map never loses it, and
\* its messages before a step are the beginning of its messages after it.
C16_HistoryAppendOnly ==
  [][\A id \in MapKeys :
       /\ userHistories[id].has => getUserHistory(userHistories, id) = userHistories
       /\ userHistories[id].has => userHistories'[id].has
       /\ IsPrefix(userHistories[id].messages, userHistories'[id].messages)]_vars

\* Two turns of alice, the second begun after the first was answered, are
\* both in her history, the first one first.
C16_Witness ==
  \E c1, c2 \in ChatSlots :
    /\ chats[c1].userId = Str("alice") /\ chats[c2].userId = Str("alice")
    /\ chats[c1].res.status = 200 /\ chats[c2].res.status = 200
    /\ chats[c1].id < chats[c2].id
    /\ chats[c1].question # chats[c2].question
    /\ userHistories["alice"].has
    /\ Len(userHistories["alice"].messages) = 8
    /\ userHistories["alice"].messages[3] = HumanText(chats[c1].question.s)
    /\ userHistories["alice"].messages[7] = HumanText(chats[c2].question.s)

\* The words of a header: its maximal runs of characters that are not
\* whitespace; word is the one being read.
RECURSIVE Words(_, _)
Words(k, word) ==
  IF k = <<>>
  THEN IF word = <<>> THEN <<>> ELSE <<word>>
  ELSE IF IsSpace(Head(k))
       THEN (IF word = <<>> THEN <<>> ELSE <<word>>) \o Words(Tail(k), <<>>)
       ELSE Words(Tail(k), Append(word, Head(k)))

\* The words joined by single underscores.
RECURSIVE JoinWords(_)
JoinWords(ws) ==
  IF ws = <<>> THEN <<>>
  ELSE IF Len(ws) = 1 THEN Head(ws)
       ELSE Head(ws) \o <<"_">> \o JoinWords(Tail(ws))

\* The header of the id column of the one trip row of an uploaded workbook.
HeaderOf(file) == file.workbook[1].rows[1][1].k

\* C17: the key standardizeKeys gives a column is the words of its header
\* joined by single underscores, the same for all spellings that differ in
\* surrounding or repeated whitespace, and normalizing it again changes
\* nothing.
C17_NormalizeCanonicalIdempotent ==
  Merged(uploads["u1"]) =>
    /\ enrichedData[1][1].k = Chars(JoinWords(Words(HeaderOf(uploads["u1"].file), <<>>)))
    /\ NormalizeChars(NormalizeChars(HeaderOf(uploads["u1"].file)))
         = NormalizeChars(HeaderOf(uploads["u1"].file))
    /\ Words(HeaderOf(uploads["u1"].file), <<>>) = Words(RawTripID, <<>>)
         => enrichedData[1][1].k = "Trip_ID"

\* The header " Trip  ID " was ingested as the key Trip_ID.
C17_Witness ==
  /\ uploads["u1"].res.status = 200
  /\ HeaderOf(uploads["u1"].file) = RawTripIDPadded
  /\ enrichedData[1][1].k = "Trip_ID"
  /\ NormalizeKey(RawTripID) = "Trip_ID"

\* C18: no step of a chat request other than its being answered 200 changes
\* the messages of any history: a request that ends in a 400 or a 500 has
\* recorded nothing.
C18_FailedTurnRecordsNothing ==
  [][\A c \in ChatSlots :
       (chats'[c] # chats[c] /\ chats'[c].res.status # 200) =>
         \A id \in MapKeys : userHistories'[id].messages = userHistories[id].messages]_vars

\* After an answered turn of alice, a later turn of hers failed at the model
\* call: her history holds the four messages of the answered turn and no
\* other, and the history of bob is empty.
C18_Witness ==
  \E c1, c2 \in ChatSlots :
    /\ chats[c1].userId = Str("alice") /\ chats[c1].res.status = 500
    /\ chats[c1].failed = "model"
    /\ chats[c2].userId = Str("alice") /\ chats[c2].res.status = 200
    /\ chats[c2].id < chats[c1].id
    /\ userHistories["alice"].messages
         = <<userHistories["alice"].messages[1], AIText(chats[c2].res.answer),
             HumanText(chats[c2].question.s), AIText(chats[c2].res.answer)>>
    /\ userHistories["bob"].messages = <<>>

\* C19: when no upload is in flight, the active index is the one built from
\* the active record set, also after two uploads that overlapped (stated for
\* two uploads that both succeeded).
C19_SettledIndexMatchesRecords ==
  (started = 2 /\ \A u \in UploadSlots : uploads[u].res.status = 200) =>
    vectorStore.docs = createVectorStore(enrichedData)

\* C20: the index is not touched while an upload builds its own: vectorStore
\* changes only in the step that ends an upload with 200, to the complete
\* index of that upload's workbook, and a chat request retrieves from the
\* index that was active when it began, whatever is published meanwhile.
C20_OnlyCompleteIndexObserved ==
  [][/\ vectorStore' # vectorStore =>
          \E u \in UploadSlots :
            /\ uploads[u].pc = "embedding" /\ uploads'[u].res.status = 200
            /\ vectorStore' = StoreOf(createVectorStore(UploadSync(uploads[u].file, tz).data))
            /\ Len(vectorStore'.docs)
                 = Len(readSheetCaseInsensitive(uploads[u].file.workbook, TripSheetName).rows)
     /\ \A c \in ChatSlots :
          /\ (chats'[c].id # chats[c].id /\ chats'[c].pc = "retrieving") =>
               (chats'[c].store = vectorStore.docs /\ vectorStore' = vectorStore)
          /\ (chats[c].pc = "retrieving" /\ chats'[c].id = chats[c].id
                /\ chats'[c].pc = "retrieving") => chats'[c].store = chats[c].store]_vars

\* A chat request that began while an upload was building its index is
\* retrieving from the index of the upload before it.
C20_Witness ==
  \E c \in ChatSlots, u \in UploadSlots :
    /\ chats[c].pc = "retrieving" /\ uploads[u].pc = "embedding"
    /\ uploads[u].id < chats[c].id
    /\ chats[c].store = vectorStore.docs
    /\ chats[c].store # <<>>
    /\ chats[c].store # uploads[u].docs

\* C21: readiness is monotonic: an upload that succeeds leaves an index, no
\* step takes the index away again, and a chat request that begins when there
\* is an index is not answered with the not-ready 400.
C21_ReadinessMonotonic ==
  [][/\ \A u \in UploadSlots :
          (uploads[u].pc = "embedding" /\ uploads'[u].res.status = 200) =>
            ~vectorStore'.isNull
     /\ ~vectorStore.isNull => ~vectorStore'.isNull
     /\ \A c \in ChatSlots :
          (chats'[c].id # chats[c].id /\ ~vectorStore.isNull) =>
            ~(chats'[c].res.status = 400
                /\ chats'[c].res.error = "No data uploaded yet")]_vars

\* An upload succeeded, a later upload ended in a 500, and a chat request
\* begun after that went on to retrieval.
C21_Witness ==
  \E u1, u2 \in UploadSlots, c \in ChatSlots :
    /\ uploads[u1].res.status = 200 /\ uploads[u2].res.status = 500
    /\ uploads[u1].id < uploads[u2].id /\ uploads[u2].id < chats[c].id
    /\ ~vectorStore.isNull
    /\ chats[c].pc = "retrieving" /\ chats[c].retrievals = 1

====
